---- MODULE Spec2Model ----
(***************************************************************************)
(* The OAuth2 authorization-code + PKCE relay of cci-node-server.          *)
(*                                                                         *)
(* Three deployments of the flow controller are modelled, chosen in Init:  *)
(*   "index"   src/index.js            secrets and token in req.session    *)
(*   "part002" src/unnamed/part_002    secrets and token in req.session,   *)
(*                                     failures go to handleError          *)
(*   "main"    src/main.js             secrets in two cookies, token in    *)
(*                                     the redirect URL                    *)
(* (src/main.js 256-295 and src/unnamed/part_003 repeat the "main" flow.)  *)
(*                                                                         *)
(* A /callback handler is two steps: Callback runs the handler up to the   *)
(* await of axios.post, ExchangeOk / ExchangeFail run its continuation.    *)
(* express-session gives every request its own copy of the session, read   *)
(* from the store when the request arrives and written back whole when     *)
(* the response ends if the handler changed it.                            *)
(*                                                                         *)
(* A client stands for one browser: its session cookie names its entry of  *)
(* the session store, and its cookie jar holds the cookies the responses   *)
(* set. A destroyed session and a session that was never saved read the    *)
(* same (an empty req.session), so both are EmptySession. The synchronous  *)
(* handlers (/auth, /gettoken, /logout) and the delivery of a response to  *)
(* the browser are single steps. `finished` keeps, of the answered token   *)
(* exchanges, who sent them, with which state and verifier, and how they   *)
(* ended; it does not keep their order.                                    *)
(*                                                                         *)
(* Two more specifications share the module. SpecStartup is the store      *)
(* client of the three files from the end of module load: its 'ready' and  *)
(* 'error' events, the retry timers of src/main.js and the calls of        *)
(* app.listen. SpecApi is one request on the upload or the update route    *)
(* of src/main.js (337-400); file names, endpoints and locations are       *)
(* sequences of characters there, so that includes, indexOf and substring  *)
(* are computed as the code computes them.                                 *)
(***************************************************************************)
EXTENDS Integers, Sequences, FiniteSets, TLC

VARIABLES
    variant,    \* the deployed server file
    clients,    \* the clients (browsers) that talk to the server
    sessions,   \* the session store: client (session cookie) -> session data
    jar,        \* the cookie jar of each client's browser
    attempts,   \* attempts[n] = the client whose /auth drew the n-th random values
    inflight,   \* the /callback handlers suspended at the await of axios.post
    finished,   \* the token exchanges that were answered, and how
    nrid,       \* the number of token-exchange requests sent to the provider
    last,       \* the request handled by the last step, and its response
    boot,       \* the store client, its error handler and the HTTP server
    api,        \* the upload and update routes of src/main.js
    web,        \* one request on its way through a server file's middleware
    lib         \* the configuration module and the calls of the utility functions

vars == <<variant, clients, sessions, jar, attempts, inflight, finished, nrid, last,
          boot, api, web, lib>>
flowVars == <<clients, sessions, jar, attempts, inflight, finished, nrid, last>>

----------------------------------------------------------------------------
(* Bounds *)

\* The lengths generateCodeVerifier is called with, besides its default.
MaxLength == 5

\* The files one upload request carries.
MaxFiles == 3

\* The 'error' events the store client emits in one run of the process.
MaxErrors == 7

\* With one client: the /auth requests served, and the /callback requests
\* that reach the token exchange.
MaxAuth == 2
MaxCalls == 2
\* The same with two clients.
MaxAuthTwo == 2
MaxCallsTwo == 1

----------------------------------------------------------------------------
(* The store client at startup *)

\* let retries = 5;
Retries == 5

\* redis.createClient(...) followed by redisClient.connect(): the process runs,
\* the first connection attempt is under way. src/index.js calls app.listen
\* while the module loads; src/unnamed/part_002 and src/main.js call it from
\* startServer only.
Loaded(v) ==
    [proc |-> "running", conn |-> "connecting",
     retries |-> IF v = "main" THEN Retries ELSE 0,
     timers |-> 0, scheduled |-> 0, errors |-> 0,
     listens |-> IF v = "index" THEN 1 ELSE 0,
     readySeen |-> FALSE, gaveUp |-> FALSE]

\* The process once the first connection is up: 'ready' was handled.
Serving(v) ==
    [Loaded(v) EXCEPT !.conn = "ready", !.listens = 1, !.readySeen = TRUE]

\* redisClient.on("ready", ...) calls startServer() in src/unnamed/part_002 and
\* src/main.js; in src/index.js it logs.
ListensOnReady(v) == v \in {"part002", "main"}

\* if (retries > 0)
RetriesRemain(b) == b.retries > 0

\* redisClient.on("error", ...) of the three files.
OnError(v, b) ==
    IF v = "index" THEN b
    ELSE IF v = "part002" THEN [b EXCEPT !.proc = "exited"]
    ELSE IF RetriesRemain(b)
           THEN [b EXCEPT !.retries = @ - 1, !.timers = @ + 1, !.scheduled = @ + 1]
           ELSE [b EXCEPT !.gaveUp = TRUE]

\* The store client emits 'ready'.
StoreReady ==
    /\ boot.proc = "running"
    /\ boot.conn = "connecting"
    /\ boot' = [boot EXCEPT !.conn = "ready", !.readySeen = TRUE,
                            !.listens = IF ListensOnReady(variant) THEN @ + 1 ELSE @]
    /\ UNCHANGED <<variant, flowVars, api, web, lib>>

\* The store client emits 'error': a connection attempt failed or the
\* connection was lost.
StoreError ==
    /\ boot.proc = "running"
    /\ boot.errors < MaxErrors
    /\ boot' = OnError(variant, [boot EXCEPT !.conn = "down", !.errors = @ + 1])
    /\ UNCHANGED <<variant, flowVars, api, web, lib>>

\* setTimeout(() => { redisClient.connect(); }, 5000) fires.
RetryTimer ==
    /\ boot.proc = "running"
    /\ boot.timers > 0
    /\ boot' = [boot EXCEPT !.timers = @ - 1,
                            !.conn = IF @ = "down" THEN "connecting" ELSE @]
    /\ UNCHANGED <<variant, flowVars, api, web, lib>>

\* The store client starts a connection attempt of its own.
ClientReconnects ==
    /\ boot.proc = "running"
    /\ boot.conn = "down"
    /\ boot' = [boot EXCEPT !.conn = "connecting"]
    /\ UNCHANGED <<variant, flowVars, api, web, lib>>

----------------------------------------------------------------------------
(* Values *)

Variants == {"index", "part002", "main"}
SessionVariants == {"index", "part002"}
Clients == {"A", "B"}
Codes == {"codeX", "codeY"}

\* JavaScript's undefined: a missing property, cookie or query parameter.
Undefined == <<>>

\* crypto.randomBytes(16).toString('hex'): the n-th draw of the generator.
\* Draws are modelled as never repeating.
generateRandomStateValue(n) == <<"st", n>>

\* crypto.randomBytes(64).toString('hex').slice(0, 64): the n-th draw.
generateCodeVerifier(n) == <<"cv", n>>

\* sha256(verifier) in URL-safe base64: a one-way function of the verifier.
generateCodeChallenge(verifier) == <<"S256", verifier>>

\* A state value no /auth ever issued (a guess, or a forged request).
ForgedState == <<"st", 0>>

\* response.data of the successful token exchange rid, sent for client c.
ProviderData(rid, c) == <<"data", rid, c>>

\* response.data.access_token
AccessToken(data) == <<"tok", data[2], data[3]>>

\* error.response.data of a failed token exchange for call rid.
ProviderErrorBody(rid) == <<"errbody", rid>>

\* error.message of a failed axios request.
AxiosErrorMessage == <<"axios", "Request failed">>

encodeURIComponent(x) == <<"uri", x>>

\* A fixed string of the program, as a response body or a log line.
Text(t) == <<t>>

EmptySession == [oauthState |-> Undefined, codeVerifier |-> Undefined,
                 tokenData |-> Undefined]

EmptyJar == [oauth_state |-> Undefined, oauth_code_verifier |-> Undefined]

NoRedirect == <<>>
NoBody == <<>>

\* `req.session.tokenData || {}` when nothing is stored.
EmptyObject == <<"{}">>

\* What a step reports: the request it handled and the response it sent.
\* status 0: no response yet (the handler is suspended at the outbound call).
\* code is the code of a token-exchange request this step sent, if it sent one.
Response(kind, c, rid, code, returnedState, status, body, redirect, json, logged) ==
    [kind |-> kind, client |-> c, rid |-> rid, code |-> code,
     qstate |-> returnedState, status |-> status, body |-> body,
     redirect |-> redirect, json |-> json, logged |-> logged]

AuthLimit == IF Cardinality(clients) = 1 THEN MaxAuth ELSE MaxAuthTwo
CallLimit == IF Cardinality(clients) = 1 THEN MaxCalls ELSE MaxCallsTwo

----------------------------------------------------------------------------
(* The transient store of a client, as a request of that client reads it *)

\* Variation: one module-level value shared by all clients, which holds what the
\* latest /auth wrote.
StoredStateShared(c) ==
    IF attempts = <<>> THEN Undefined
    ELSE IF variant \in SessionVariants
           THEN sessions[attempts[Len(attempts)]].oauthState
           ELSE jar[attempts[Len(attempts)]].oauth_state

StoredState(c) ==
    IF variant \in SessionVariants THEN sessions[c].oauthState
                                   ELSE jar[c].oauth_state

\* Variation: the verifier of the first attempt is sent whatever is stored.
StoredVerifierFirst(c) == generateCodeVerifier(1)

StoredVerifier(c) ==
    IF variant \in SessionVariants THEN sessions[c].codeVerifier
                                   ELSE jar[c].oauth_code_verifier

----------------------------------------------------------------------------
(* GET /auth *)

\* Variation: a pending attempt is not overwritten by a later /auth.
AuthSessionKeepFirst(sess, state, codeVerifier) ==
    IF sess.oauthState = Undefined
      THEN [sess EXCEPT !.oauthState = state, !.codeVerifier = codeVerifier]
      ELSE sess

\* req.session.oauthState = state; req.session.codeVerifier = codeVerifier
AuthSession(sess, state, codeVerifier) ==
    [sess EXCEPT !.oauthState = state, !.codeVerifier = codeVerifier]

\* res.cookie('oauth_state', state, ...); res.cookie('oauth_code_verifier', ...)
AuthCookies(cookies, state, codeVerifier) ==
    [cookies EXCEPT !.oauth_state = state, !.oauth_code_verifier = codeVerifier]

\* The query string of the redirect to the provider's authorization endpoint.
AuthorizationUrl(state, codeChallenge) ==
    <<"authorize", "response_type=code", state, codeChallenge, "S256">>

Auth(c) ==
    /\ Len(attempts) < AuthLimit
    /\ LET n == Len(attempts) + 1
           state == generateRandomStateValue(n)
           codeVerifier == generateCodeVerifier(n)
           codeChallenge == generateCodeChallenge(codeVerifier)
       IN /\ attempts' = Append(attempts, c)
          /\ IF variant \in SessionVariants
               THEN /\ sessions' = [sessions EXCEPT
                                      ![c] = AuthSession(@, state, codeVerifier)]
                    /\ jar' = jar
               ELSE /\ jar' = [jar EXCEPT
                                 ![c] = AuthCookies(@, state, codeVerifier)]
                    /\ sessions' = sessions
          /\ last' = Response("auth", c, 0, Undefined, Undefined, 302, NoBody,
                              AuthorizationUrl(state, codeChallenge),
                              Undefined, {})
    /\ UNCHANGED <<boot, api, web, lib, variant, clients, inflight, finished, nrid>>

----------------------------------------------------------------------------
(* GET /callback, up to the await of the token exchange *)

\* Variation: the comparison is skipped when nothing is stored.
StateRejectedWhenStored(returnedState, storedState) ==
    storedState # Undefined /\ returnedState # storedState

\* Variation: after a rejected callback the next callback is rejected as
\* well, whatever state it carries.
StateRejectedAfterRejection(returnedState, storedState) ==
    \/ returnedState # storedState
    \/ last.kind = "callback" /\ last.status = 400

\* if (req.session.oauthState !== returnedState) / (returnedState !== storedState)
StateRejected(returnedState, storedState) == returnedState # storedState

CsrfMessage == Text("State value does not match. Possible CSRF attack.")

\* The body of the axios.post to the token endpoint, with the request's own
\* copy of the session (what the continuation will write back).
ExchangeRequest(rid, c, code, returnedState) ==
    [rid |-> rid, client |-> c, grant_type |-> "authorization_code",
     code |-> code, qstate |-> returnedState,
     verifier |-> StoredVerifier(c),
     sess |-> IF variant \in SessionVariants THEN sessions[c] ELSE EmptySession]

Callback(c, code, returnedState) ==
    /\ IF StateRejected(returnedState, StoredState(c))
         THEN /\ last' = Response("callback", c, 0, Undefined, returnedState, 400,
                                  CsrfMessage, NoRedirect, Undefined, {})
              /\ UNCHANGED <<inflight, nrid>>
         ELSE /\ nrid < CallLimit
              /\ nrid' = nrid + 1
              /\ inflight' = inflight \cup
                     {ExchangeRequest(nrid + 1, c, code, returnedState)}
              /\ last' = Response("callback", c, nrid + 1, code,
                                  returnedState, 0, NoBody, NoRedirect, Undefined, {})
    /\ UNCHANGED <<boot, api, web, lib, variant, clients, sessions, jar, attempts, finished>>

----------------------------------------------------------------------------
(* GET /callback, the continuation after the token exchange answered *)

\* What is remembered of an answered token exchange.
Outcome(r, status) ==
    [client |-> r.client, qstate |-> r.qstate, verifier |-> r.verifier,
     status |-> status]

\* Variation: token data already in the session is not replaced.
CallbackSessionKeepToken(sess, data) ==
    [sess EXCEPT !.tokenData = IF @ = Undefined THEN data ELSE @,
                 !.oauthState = Undefined, !.codeVerifier = Undefined]

\* Variation: the token is stored and the secrets are left in the session.
CallbackSessionKeepSecrets(sess, data) == [sess EXCEPT !.tokenData = data]

\* req.session.tokenData = response.data; delete req.session.oauthState;
\* delete req.session.codeVerifier
CallbackSession(sess, data) ==
    [sess EXCEPT !.tokenData = data, !.oauthState = Undefined,
                 !.codeVerifier = Undefined]

\* Variation: the cookies are not cleared.
ClearCookiesNot(cookies) == cookies

\* res.clearCookie('oauth_state', ...); res.clearCookie('oauth_code_verifier', ...)
ClearCookies(cookies) ==
    [cookies EXCEPT !.oauth_state = Undefined, !.oauth_code_verifier = Undefined]

\* `${config.CCI_APP_HOME}/dashboard?data=${encodeURIComponent(access_token)}`
DashboardUrl(data) == <<"dashboard", encodeURIComponent(AccessToken(data))>>

\* What the success path writes to the console or the logger.
SuccessLog(v, data) == IF v = "index" THEN {data} ELSE {}

ExchangeOk(r) ==
    /\ r \in inflight
    /\ LET c == r.client
           rid == r.rid
           data == ProviderData(rid, c)
       IN IF variant \in SessionVariants
            THEN /\ sessions' = [sessions EXCEPT
                                   ![c] = CallbackSession(r.sess, data)]
                 /\ jar' = jar
                 /\ last' = Response("exchange_ok", c, rid, Undefined,
                                     r.qstate, 200,
                                     Text("Token obtained and stored securely!"),
                                     NoRedirect, Undefined,
                                     SuccessLog(variant, data))
            ELSE /\ jar' = [jar EXCEPT ![c] = ClearCookies(@)]
                 /\ sessions' = sessions
                 /\ last' = Response("exchange_ok", c, rid, Undefined,
                                     r.qstate, 302, NoBody,
                                     DashboardUrl(data), Undefined,
                                     SuccessLog(variant, data))
    /\ inflight' = inflight \ {r}
    /\ finished' = finished \cup {Outcome(r, "ok")}
    /\ UNCHANGED <<boot, api, web, lib, variant, clients, attempts, nrid>>

\* error.response?.data || error.message
ErrorDetails(rid, hasResponse) ==
    IF hasResponse THEN ProviderErrorBody(rid) ELSE AxiosErrorMessage

\* Variation: the error detail is sent to the client.
FailureBodyLeaks(v, rid, hasResponse) == ErrorDetails(rid, hasResponse)

\* The body of the 500 response of the catch block (index.js) or of
\* handleError (the other variants).
FailureBody(v, rid, hasResponse) ==
    IF v = "index" THEN Text("Error obtaining token.")
                   ELSE Text("Internal Server Error")

\* What the catch block and handleError write to the console or the logger.
FailureLog(v, rid, hasResponse) ==
    CASE v = "index"   -> {ErrorDetails(rid, hasResponse)}
      [] v = "part002" -> {ErrorDetails(rid, hasResponse),
                           Text("Error obtaining token.")}
      [] OTHER         -> {AxiosErrorMessage}

\* The session is written back only when the handler changed it.
FailureSession(stored, sess) == stored

\* hasResponse: the provider answered non-2xx (TRUE) or the network failed.
ExchangeFail(r, hasResponse) ==
    /\ r \in inflight
    /\ LET c == r.client
           rid == r.rid
       IN /\ sessions' = [sessions EXCEPT
                            ![c] = FailureSession(@, r.sess)]
          /\ last' = Response("exchange_fail", c, rid, Undefined,
                              r.qstate, 500,
                              FailureBody(variant, rid, hasResponse),
                              NoRedirect, Undefined,
                              FailureLog(variant, rid, hasResponse))
    /\ inflight' = inflight \ {r}
    /\ finished' = finished \cup {Outcome(r, "failed")}
    /\ UNCHANGED <<boot, api, web, lib, variant, clients, jar, attempts, nrid>>

\* error.message of the TypeError thrown by response.data.access_token when
\* response.data is null.
TypeErrorMessage == <<"TypeError", "access_token">>

\* The provider answers 2xx with the JSON body null, so response.data is
\* null. In src/main.js both res.clearCookie calls have run when the
\* argument of res.redirect is evaluated; response.data.access_token throws,
\* the catch calls next(error) and handleError sends 500 on the response that
\* already carries the two clearing Set-Cookie headers. (In the session
\* files nothing throws: response.data is stored whatever it is and the
\* success text is sent, the path of ExchangeOk.)
ExchangeOkNullData(r) ==
    /\ r \in inflight
    /\ variant \notin SessionVariants
    /\ LET c == r.client
           rid == r.rid
       IN /\ jar' = [jar EXCEPT ![c] = ClearCookies(@)]
          /\ last' = Response("exchange_null", c, rid, Undefined,
                              r.qstate, 500, Text("Internal Server Error"),
                              NoRedirect, Undefined, {TypeErrorMessage})
    /\ inflight' = inflight \ {r}
    /\ finished' = finished \cup {Outcome(r, "threw")}
    /\ UNCHANGED <<boot, api, web, lib, variant, clients, sessions, attempts, nrid>>

----------------------------------------------------------------------------
(* GET /gettoken *)

\* res.json(req.session.tokenData || {})
TokenJson(sess) == IF sess.tokenData = Undefined THEN EmptyObject ELSE sess.tokenData

GetToken(c) ==
    /\ last' = IF variant \in SessionVariants
                 THEN Response("gettoken", c, 0, Undefined, Undefined, 200, NoBody,
                               NoRedirect, TokenJson(sessions[c]), {})
                 ELSE Response("gettoken", c, 0, Undefined, Undefined, 404,
                               Text("Not Found"), NoRedirect, Undefined, {})
    /\ UNCHANGED <<boot, api, web, lib, variant, clients, sessions, jar, attempts, inflight, finished, nrid>>

----------------------------------------------------------------------------
(* GET /logout *)

\* Variation: only the flow secrets are removed from the session.
DestroySessionSecretsOnly(sess) ==
    [sess EXCEPT !.oauthState = Undefined, !.codeVerifier = Undefined]

\* req.session.destroy(...): the store forgets the session.
DestroySession(sess) == EmptySession

Logout(c) ==
    /\ IF variant \in SessionVariants
         THEN /\ sessions' = [sessions EXCEPT ![c] = DestroySession(@)]
              /\ jar' = jar
              /\ last' = Response("logout", c, 0, Undefined, Undefined, 200,
                                  Text("Logged out successfully!"), NoRedirect,
                                  Undefined, {})
         ELSE /\ jar' = [jar EXCEPT ![c] = ClearCookies(@)]
              /\ sessions' = sessions
              /\ last' = Response("logout", c, 0, Undefined, Undefined, 302, NoBody,
                                  <<"home">>, Undefined, {})
    /\ UNCHANGED <<boot, api, web, lib, variant, clients, attempts, inflight, finished, nrid>>

----------------------------------------------------------------------------
(* The system *)

\* The codes a request can carry. The code is only passed on to the provider;
\* runs with two clients use one code, runs with one client tell two apart.
QueryCodes == IF Cardinality(clients) = 1 THEN Codes ELSE {"codeX"}

----------------------------------------------------------------------------
(* The upload and update routes of src/main.js *)

\* Strings that the code searches or cuts are sequences of characters.
\* String.prototype.includes, indexOf (0-based, -1 when absent) and
\* substring(start).
includes(s, t) ==
    \E i \in 1..(Len(s) - Len(t) + 1) : SubSeq(s, i, i + Len(t) - 1) = t

indexOf(s, ch) ==
    IF \E i \in 1..Len(s) : s[i] = ch
      THEN (CHOOSE i \in 1..Len(s) : s[i] = ch /\ \A j \in 1..(i - 1) : s[j] # ch) - 1
      ELSE -1

substring(s, start) == SubSeq(s, start + 1, Len(s))

\* config.IDRIVE_S3_*: any strings; these stand for them.
IDRIVE_S3_PICTURES_FOLDER == <<"p", "i", "x">>
IDRIVE_S3_SIGNATURES_FOLDER == <<"s", "i", "g">>
IDRIVE_S3_BUCKET_NAME == <<"b">>
IDRIVE_S3_PUBLIC_ENDPOINT == <<"c", "d", "n">>
\* config.IDRIVE_S3_ENDPOINT: "s.com", "am.com", "s.io".
Endpoints ==
    { <<"s", ".", "c", "o", "m">>,
      <<"a", "m", ".", "c", "o", "m">>,
      <<"s", ".", "i", "o">> }

\* file.originalname: "picture1", "mypicture", "pictur", "Picture", "sign".
FileNames ==
    { <<"p", "i", "c", "t", "u", "r", "e", "1">>,
      <<"m", "y", "p", "i", "c", "t", "u", "r", "e">>,
      <<"p", "i", "c", "t", "u", "r">>,
      <<"P", "i", "c", "t", "u", "r", "e">>,
      <<"s", "i", "g", "n">> }

RECURSIVE SeqsUpTo(_, _)
SeqsUpTo(S, n) ==
    IF n = 0 THEN {<<>>}
    ELSE LET shorter == SeqsUpTo(S, n - 1)
         IN  shorter \cup {Append(q, x) : q \in shorter, x \in S}

\* req.files as multer leaves it: absent, or the list of the uploaded files.
UploadRequests ==
    {[hasFiles |-> FALSE, files |-> <<>>]}
        \cup {[hasFiles |-> TRUE, files |-> q] : q \in SeqsUpTo(FileNames, MaxFiles)}

NoResponse == [status |-> 0, body |-> NoBody, message |-> NoBody, urls |-> <<>>,
               json |-> Undefined]

\* No request on these routes yet.
ApiIdle ==
    [route |-> "none", phase |-> "idle",
     endpoint |-> <<"s", ".", "c", "o", "m">>,
     hasFiles |-> FALSE, files |-> <<>>,
     pending |-> {}, calls |-> <<>>, stored |-> <<>>, failed |-> {}, urls |-> <<>>,
     method |-> "none", present |-> {}, patches |-> <<>>,
     resp |-> NoResponse]

\* Variation: fewer than two files are refused, more are accepted.
WrongFileCountBelowTwo(req) == ~req.hasFiles \/ Len(req.files) < 2

\* if (!files || files.length !== 2)
WrongFileCount(req) == ~req.hasFiles \/ Len(req.files) # 2

\* Variation: the folder is chosen by the start of the name.
fullFileNameByPrefix(originalname) ==
    IF Len(originalname) >= 7
         /\ SubSeq(originalname, 1, 7) = <<"p", "i", "c", "t", "u", "r", "e">>
      THEN IDRIVE_S3_PICTURES_FOLDER \o <<"/">> \o originalname
      ELSE IDRIVE_S3_SIGNATURES_FOLDER \o <<"/">> \o originalname

\* const fullFileName = file.originalname.includes('picture') ? ... : ...
fullFileName(originalname) ==
    IF includes(originalname, <<"p", "i", "c", "t", "u", "r", "e">>)
      THEN IDRIVE_S3_PICTURES_FOLDER \o <<"/">> \o originalname
      ELSE IDRIVE_S3_SIGNATURES_FOLDER \o <<"/">> \o originalname

\* result.Location of s3.upload with s3ForcePathStyle: endpoint/bucket/key.
Location(endpoint, key) ==
    endpoint \o <<"/">> \o IDRIVE_S3_BUCKET_NAME \o <<"/">> \o key

\* result.Location.substring(result.Location.indexOf('m') + 1), prefixed with
\* the public endpoint.
resultPublicLocation(location) ==
    IDRIVE_S3_PUBLIC_ENDPOINT \o substring(location, indexOf(location, "m") + 1)

\* handleError: res.status(500).send('Internal Server Error')
handleError == [NoResponse EXCEPT !.status = 500, !.body = Text("Internal Server Error")]

\* handle404: res.status(404).send('Not Found')
handle404 == [NoResponse EXCEPT !.status = 404, !.body = Text("Not Found")]

\* Variation: a failed upload is answered with the URLs gathered so far.
UploadRejectedPartial(a) ==
    [NoResponse EXCEPT !.status = 200,
                       !.message = Text("Images successfully uploaded."),
                       !.urls = a.urls]

\* catch (error) { next(error); } of the upload route.
UploadRejected(a) == handleError

\* POST /api/uploadToS3 up to the await of Promise.all: 400, or one
\* s3.upload per file, all started before the handler suspends.
UploadRequest(req) ==
    /\ api.phase = "idle"
    /\ api' =
          IF WrongFileCount(req)
            THEN [api EXCEPT
                    !.route = "upload", !.phase = "answered",
                    !.hasFiles = req.hasFiles, !.files = req.files,
                    !.resp = [NoResponse EXCEPT
                                !.status = 400,
                                !.body = Text("Both signature and image files are required.")]]
            ELSE [api EXCEPT
                    !.route = "upload", !.phase = "uploading",
                    !.hasFiles = req.hasFiles, !.files = req.files,
                    !.pending = DOMAIN req.files,
                    !.calls = [i \in DOMAIN req.files |->
                                  [idx |-> i, Key |-> fullFileName(req.files[i])]]]
    /\ UNCHANGED <<variant, flowVars, boot, web, lib>>

\* s3.upload(...).promise() of file i resolves: its public URL is pushed;
\* when it was the last one, Promise.all resolves and res.json answers.
UploadDone(i) ==
    /\ i \in api.pending
    /\ LET key == api.calls[i].Key
           urls == Append(api.urls, resultPublicLocation(Location(api.endpoint, key)))
           last_one == api.phase = "uploading" /\ api.pending = {i}
       IN  api' = [api EXCEPT
                     !.pending = @ \ {i},
                     !.stored = Append(@, key),
                     !.urls = urls,
                     !.phase = IF last_one THEN "answered" ELSE @,
                     !.resp = IF last_one
                                THEN [NoResponse EXCEPT
                                        !.status = 200,
                                        !.message = Text("Images successfully uploaded."),
                                        !.urls = urls]
                                ELSE @]
    /\ UNCHANGED <<variant, flowVars, boot, web, lib>>

\* s3.upload(...).promise() of file i rejects: Promise.all rejects at the
\* first rejection and the catch hands the error to handleError.
UploadFail(i) ==
    /\ i \in api.pending
    /\ api' = [api EXCEPT
                 !.pending = @ \ {i},
                 !.failed = @ \cup {i},
                 !.phase = "answered",
                 !.resp = IF api.phase = "uploading" THEN UploadRejected(api) ELSE @]
    /\ UNCHANGED <<variant, flowVars, boot, web, lib>>

\* The fields an update request can carry.
UpdateFields == {"data", "id", "capturedImage", "signatureImage"}

\* req.query.<field>
Query(present, field) == IF field \in present THEN <<field>> ELSE Undefined

\* The PATCH of axios.patch: the record's URL, an empty body, the bearer.
PatchRequest(present) ==
    [url |-> <<"itemFulfillment", Query(present, "id")>>,
     body |-> EmptyObject,
     bearer |-> Query(present, "data")]

\* response.data of the downstream PATCH.
DownstreamData(patch) == <<"record", patch.url>>

\* A request on /api/updateItemFulfillmentRecord: only app.get is
\* registered, any other method falls through to handle404.
UpdateRequest(method, present) ==
    /\ api.phase = "idle"
    /\ api' =
          IF method = "GET"
            THEN [api EXCEPT
                    !.route = "update", !.phase = "relaying",
                    !.method = method, !.present = present,
                    !.patches = Append(@, PatchRequest(present))]
            ELSE [api EXCEPT
                    !.route = "update", !.phase = "answered",
                    !.method = method, !.present = present,
                    !.resp = handle404]
    /\ UNCHANGED <<variant, flowVars, boot, web, lib>>

\* The downstream API answers the PATCH: res.json(response.data).
UpdateOk ==
    /\ api.phase = "relaying"
    /\ api' = [api EXCEPT
                 !.phase = "answered",
                 !.resp = [NoResponse EXCEPT
                             !.status = 200,
                             !.json = DownstreamData(api.patches[Len(api.patches)])]]
    /\ UNCHANGED <<variant, flowVars, boot, web, lib>>

\* The PATCH fails: next(error).
UpdateFail ==
    /\ api.phase = "relaying"
    /\ api' = [api EXCEPT !.phase = "answered", !.resp = handleError]
    /\ UNCHANGED <<variant, flowVars, boot, web, lib>>

----------------------------------------------------------------------------
(* A request through the middleware of a server file *)

\* The five server files: the three flow controllers, the second server
\* file of src/main.js (197-411) and src/unnamed/part_003.
Files == {"index", "part002", "main", "main2", "part003"}

Methods == {"GET", "POST", "OPTIONS"}

SuiteQLPath == "/api/getItemFulfillmentDataSuiteQL"
RecordPath == "/api/getItemFulfillmentRecord"
RelayPaths == {SuiteQLPath, RecordPath}

Paths ==
    {"/auth", "/callback", "/gettoken", "/logout", "/api/updateItemFulfillmentRecord",
     "/api/uploadToS3", "/nope"} \cup RelayPaths

\* app.get(...) and app.post(...) of each file.
Routes(file) ==
    LET flow == {<<"GET", "/auth">>, <<"GET", "/callback">>, <<"GET", "/logout">>}
        relay == {<<"GET", SuiteQLPath>>, <<"GET", RecordPath>>}
    IN  IF file \in {"index", "part002"} THEN flow \cup {<<"GET", "/gettoken">>}
        ELSE IF file = "main2"
          THEN flow \cup relay \cup {<<"GET", "/api/updateItemFulfillmentRecord">>,
                                     <<"POST", "/api/uploadToS3">>}
        ELSE flow \cup relay

\* Variation: a path counts as registered whatever the method.
RegisteredAnyMethod(file, method, path) == \E r \in Routes(file) : r[2] = path

Registered(file, method, path) == <<method, path>> \in Routes(file)

\* app.use(limiter): every file but src/index.js.
UsesLimiter(file) == file # "index"

\* app.use(handle404): every file but src/index.js.
InstallsHandle404(file) == file # "index"

\* The middleware, in the order of the app.use and app.get calls, that ends
\* the request: cors answers every OPTIONS request (preflight), the limiter
\* answers a client over its limit, then the routes, then handle404, or the
\* 404 of Express itself where handle404 is not installed.
Dispatch(file, method, path, overLimit) ==
    IF method = "OPTIONS" THEN "cors"
    ELSE IF UsesLimiter(file) /\ overLimit THEN "limiter"
    ELSE IF Registered(file, method, path) THEN "route"
    ELSE IF InstallsHandle404(file) THEN "handle404"
    ELSE "finalhandler"

\* The token parameter of a relay request: none, not a JWT, a JWT without
\* sub, a JWT with sub.
Tokens == {Undefined, <<"garbage">>, <<"jwt", "nosub">>, <<"jwt", "sub">>}

\* jwt.decode(tokenData) followed by decodedToken.sub.substring(...) throws
\* unless the token decodes to a payload with a sub string; only the SuiteQL
\* route of the files that require jsonwebtoken does it.
DecodesToken(file, path) == path = SuiteQLPath /\ file \in {"main2", "part003"}

DecodeThrows(token) == token # <<"jwt", "sub">>

\* The request of axios.post / axios.get to the downstream API.
DownstreamRequest(path, token) ==
    [url |-> <<"netsuite", path>>, bearer |-> token]

\* response.data of the downstream API.
DownstreamJson(request) == <<"json", request.url>>

\* Variation: the error message is sent to the caller.
RelayRejectedWithDetail(message) == [handleError EXCEPT !.body = message]

\* catch (error) { next(error); } of the relay routes.
RelayRejected(message) == handleError

WebIdle == [phase |-> "idle", file |-> "index", method |-> "GET", path |-> "/",
            overLimit |-> FALSE, by |-> "none", token |-> Undefined,
            failure |-> "none", downstream |-> <<>>, logged |-> {},
            resp |-> NoResponse]

\* A request arrives and runs until it is answered or its handler suspends.
\* The handlers of the other routes are the subject of Spec and SpecApi.
WebRequest(file, method, path, overLimit, token) ==
    /\ web.phase = "idle"
    /\ LET by == Dispatch(file, method, path, overLimit)
           w == [web EXCEPT !.file = file, !.method = method, !.path = path,
                            !.overLimit = overLimit, !.by = by, !.token = token]
       IN  web' =
             IF by = "cors"
               THEN [w EXCEPT !.phase = "answered", !.resp.status = 204]
             ELSE IF by = "limiter"
               THEN [w EXCEPT
                       !.phase = "answered", !.resp.status = 429,
                       !.resp.body = Text("Too many requests, please try again later.")]
             ELSE IF by = "handle404"
               THEN [w EXCEPT !.phase = "answered", !.resp = handle404]
             ELSE IF by = "finalhandler"
               THEN [w EXCEPT !.phase = "answered", !.resp.status = 404,
                              !.resp.body = <<"Cannot", method, path>>]
             ELSE IF path \notin RelayPaths
               THEN [w EXCEPT !.phase = "handled"]
             ELSE IF DecodesToken(file, path) /\ DecodeThrows(token)
               THEN [w EXCEPT
                       !.phase = "answered", !.failure = "token",
                       !.logged = {<<"TypeError">>},
                       !.resp = RelayRejected(<<"TypeError">>)]
             ELSE [w EXCEPT
                     !.phase = "relaying",
                     !.downstream = <<DownstreamRequest(path, token)>>]
    /\ UNCHANGED <<variant, flowVars, boot, api, lib>>

\* The downstream API answers 2xx: res.json(response.data).
RelayOk ==
    /\ web.phase = "relaying"
    /\ web' = [web EXCEPT
                 !.phase = "answered", !.resp.status = 200,
                 !.resp.json = DownstreamJson(web.downstream[1])]
    /\ UNCHANGED <<variant, flowVars, boot, api, lib>>

\* The downstream request fails (no answer, or a non-2xx answer).
RelayFail(message) ==
    /\ web.phase = "relaying"
    /\ web' = [web EXCEPT
                 !.phase = "answered", !.failure = "downstream",
                 !.logged = {message},
                 !.resp = RelayRejected(message)]
    /\ UNCHANGED <<variant, flowVars, boot, api, lib>>

----------------------------------------------------------------------------
(* The configuration module and the utility functions *)

\* The schema of src/unnamed/part_000 5-35 (and 56-86), used by the files
\* of src/main.js and src/unnamed/part_003.
FullSchemaStrings ==
    {"CLIENT_ID", "CLIENT_SECRET", "REDIRECT_URI", "OAUTH_STEP_ONE_GET_ENDPOINT",
     "OAUTH_STEP_TWO_POST_ENDPOINT", "SCOPE", "SERVER_HOST", "REDIS_HOST", "INFO_LOG_LEVEL",
     "DEBUG_LOG_LEVEL", "ERROR_LOG_LEVEL", "SERVICE_NAME", "ERROR_LOG_PATH",
     "COMBINED_LOG_PATH", "IDRIVE_ACCESS_KEY_ID", "IDRIVE_SECRET_ACCESS_KEY",
     "IDRIVE_S3_REGION", "IDRIVE_S3_ACL", "IDRIVE_S3_ENDPOINT",
     "IDRIVE_S3_BUCKET_NAME", "IDRIVE_S3_PICTURES_FOLDER",
     "IDRIVE_S3_SIGNATURES_FOLDER", "IDRIVE_S3_PUBLIC_ENDPOINT"}
FullSchemaNumbers ==
    {"SERVER_PORT", "REDIS_PORT", "REDIS_EXPIRATION_TIME", "RATE_LIMIT_MINUTES",
     "RATE_LIMIT_MAX_REQUESTS"}

\* The schema of src/unnamed/part_000 97-110, used by src/unnamed/part_002.
ShortSchemaStrings ==
    {"CLIENT_ID", "CLIENT_SECRET", "REDIRECT_URI", "OAUTH_STEP_ONE_GET_ENDPOINT",
     "OAUTH_STEP_TWO_POST_ENDPOINT", "SCOPE", "REDIS_HOST"}
ShortSchemaNumbers ==
    {"SERVER_PORT", "REDIS_PORT", "RATE_LIMIT_MINUTES", "RATE_LIMIT_MAX_REQUESTS"}

\* The keys a file's schema declares with Joi.string().required() and with
\* Joi.number().required(); src/index.js reads process.env without a schema.
SchemaStrings(file) ==
    IF file = "index" THEN {}
    ELSE IF file = "part002" THEN ShortSchemaStrings
    ELSE FullSchemaStrings

SchemaNumbers(file) ==
    IF file = "index" THEN {}
    ELSE IF file = "part002" THEN ShortSchemaNumbers
    ELSE FullSchemaNumbers

\* The config.* (process.env.* in src/index.js) that the request handlers of
\* a file read.
HandlerKeys(file) ==
    LET flow == {"CLIENT_ID", "REDIRECT_URI", "OAUTH_STEP_ONE_GET_ENDPOINT",
                 "OAUTH_STEP_TWO_POST_ENDPOINT", "SCOPE"}
        cookie == flow \cup {"CLIENT_SECRET", "POST_HEADER_CONTENT_TYPE", "CCI_APP_HOME",
                             "SERVICE_NAME", "CCI_NETSUITE_SUITEQL_ROOT_URI",
                             "CCI_NETSUITE_REST_ROOT_URI"}
    IN  IF file = "index" THEN flow
        ELSE IF file = "part002" THEN flow \cup {"CLIENT_SECRET"}
        ELSE IF file = "main2"
          THEN cookie \cup {"IDRIVE_S3_PICTURES_FOLDER", "IDRIVE_S3_SIGNATURES_FOLDER",
                            "IDRIVE_S3_BUCKET_NAME", "IDRIVE_S3_ACL",
                            "IDRIVE_S3_PUBLIC_ENDPOINT"}
        ELSE cookie

EnvKeys ==
    FullSchemaStrings \cup FullSchemaNumbers \cup HandlerKeys("main2")
        \cup {"NODE_ENV", "EXTRA_KEY"}

\* What process.env holds for a key: nothing, the empty string, a string that
\* is a number, another string, or one of the two names of an environment.
EnvValues == {"absent", "empty", "numeric", "text", "production", "development"}

\* An environment in which every key has a value of the right kind.
GoodEnv ==
    [k \in EnvKeys |->
        IF k \in FullSchemaNumbers THEN "numeric"
        ELSE IF k = "NODE_ENV" THEN "production"
        ELSE IF k = "EXTRA_KEY" THEN "absent"
        ELSE "text"]

\* The environments the process is started in: a good one with one key
\* changed.
Envs == {[GoodEnv EXCEPT ![k] = v] : k \in EnvKeys, v \in EnvValues}

\* Joi.string().required()
JoiStringRequired(v) == v \notin {"absent", "empty"}

\* Joi.number().required(): a string is converted when it is a number.
JoiNumberRequired(v) == v = "numeric"

\* Joi.string().valid('production', 'development').default('development')
JoiNodeEnv(v) == v \in {"absent", "production", "development"}

\* schema.validate(process.env) of a file's schema, with .unknown(true): no
\* error.
Valid(file, env) ==
    /\ \A k \in SchemaStrings(file) : JoiStringRequired(env[k])
    /\ \A k \in SchemaNumbers(file) : JoiNumberRequired(env[k])
    /\ file # "index" => JoiNodeEnv(env["NODE_ENV"])

\* Buffer.toString('hex'): two digits per byte.
HexDigits ==
    <<"0", "1", "2", "3", "4", "5", "6", "7", "8", "9", "a", "b", "c", "d", "e", "f">>

toHex(bytes) ==
    [i \in 1..(2 * Len(bytes)) |->
        LET b == bytes[(i + 1) \div 2]
        IN  IF i % 2 = 1 THEN HexDigits[(b \div 16) + 1] ELSE HexDigits[(b % 16) + 1]]

\* String.prototype.slice(0, end) for end >= 0.
slice(str, end) == SubSeq(str, 1, IF end < Len(str) THEN end ELSE Len(str))

\* crypto.randomBytes(size): size bytes, whichever the generator draws; the
\* seed stands for the draw.
Seeds == 0..2
randomBytes(size, seed) == [i \in 1..size |-> (seed * 113 + i * (seed * 58 + 1) * 37) % 256]

\* Variation: half as many bytes as characters are drawn.
VerifierBytesHalf(length) == length \div 2

\* crypto.randomBytes(length)
VerifierBytes(length) == length

\* function generateCodeVerifier(length = 64)
DefaultVerifierLength == 64

\* crypto.randomBytes(length).toString('hex').slice(0, length)
generateCodeVerifierString(length, seed) ==
    slice(toHex(randomBytes(VerifierBytes(length), seed)), length)

\* Buffer.toString('base64'): the alphabet, 4 characters per 3 bytes, '='
\* padding.
Base64Alphabet ==
    <<"A", "B", "C", "D", "E", "F", "G", "H", "I", "J", "K", "L", "M", "N", "O", "P",
      "Q", "R", "S", "T", "U", "V", "W", "X", "Y", "Z", "a", "b", "c", "d", "e", "f",
      "g", "h", "i", "j", "k", "l", "m", "n", "o", "p", "q", "r", "s", "t", "u", "v",
      "w", "x", "y", "z", "0", "1", "2", "3", "4", "5", "6", "7", "8", "9", "+", "/">>

toBase64(bytes) ==
    LET n == Len(bytes)
        byte(j) == IF j <= n THEN bytes[j] ELSE 0
        group(g) == byte(3 * g - 2) * 65536 + byte(3 * g - 1) * 256 + byte(3 * g)
        sextet(i) ==
            LET g == (i + 3) \div 4
                k == (i - 1) % 4
            IN  IF k = 0 THEN group(g) \div 262144
                ELSE IF k = 1 THEN (group(g) \div 4096) % 64
                ELSE IF k = 2 THEN (group(g) \div 64) % 64
                ELSE group(g) % 64
    IN  [i \in 1..(4 * ((n + 2) \div 3)) |->
            IF i <= (8 * n + 5) \div 6 THEN Base64Alphabet[sextet(i) + 1] ELSE "="]

\* String.prototype.replace(/x/g, y)
replaceAll(str, from, to) == [i \in DOMAIN str |-> IF str[i] = from THEN to ELSE str[i]]

\* Variation: the padding is kept.
removePaddingNot(str) == str

\* .replace(/=/g, '')
removePadding(str) == SelectSeq(str, LAMBDA ch : ch # "=")

\* The verifiers generateCodeChallenge is called with.
Verifiers == {generateCodeVerifierString(DefaultVerifierLength, seed) : seed \in 0..1}

\* SHA-256 digests (32 bytes): all zero, all ones, one whose Base64 is all
\* '+', and a mixed one.
DigestSamples ==
    { [i \in 1..32 |-> 0],
      [i \in 1..32 |-> 255],
      [i \in 1..32 |-> IF i % 3 = 1 THEN 251 ELSE IF i % 3 = 2 THEN 239 ELSE 190],
      [i \in 1..32 |-> (i * 89 + 7) % 256] }

\* crypto.createHash('sha256').update(verifier).digest('base64') with the
\* three replacements; sha256 is the hash function, a fixed map from
\* verifiers to digests.
generateCodeChallengeString(sha256, verifier) ==
    removePadding(replaceAll(replaceAll(toBase64(sha256[verifier]), "+", "-"), "/", "_"))

LibIdle ==
    [op |-> "none", sha256 |-> [v \in Verifiers |-> [i \in 1..32 |-> 0]], calls |-> {}]

\* generateCodeVerifier(length), and generateCodeVerifier() when length is the
\* default.
CallVerifier(length, seed) ==
    /\ lib.op = "none"
    /\ lib' = [op |-> "verifier", length |-> length,
               out |-> generateCodeVerifierString(length, seed)]
    /\ UNCHANGED <<variant, flowVars, boot, api, web>>

\* generateCodeChallenge(verifier), called any number of times.
CallChallenge(verifier) ==
    /\ lib.op \in {"none", "challenge"}
    /\ lib' = [op |-> "challenge", sha256 |-> lib.sha256,
               calls |-> lib.calls \cup
                  {<<verifier, generateCodeChallengeString(lib.sha256, verifier)>>}]
    /\ UNCHANGED <<variant, flowVars, boot, api, web>>

\* The module of a server file is loaded: require('./config') throws on a
\* validation error, before the rest of the file runs; otherwise the file
\* goes on to listen.
LoadConfig(file, env) ==
    /\ lib.op = "none"
    /\ lib' = [op |-> "config", file |-> file, env |-> env,
               threw |-> ~Valid(file, env), serving |-> Valid(file, env)]
    /\ UNCHANGED <<variant, flowVars, boot, api, web>>

\* The state values a request can carry: none, a forged one, or one that an
\* /auth put into a redirect.
QueryStates ==
    {Undefined, ForgedState}
        \cup {generateRandomStateValue(n) : n \in 1..Len(attempts)}

Init ==
    /\ variant \in Variants
    /\ clients \in {{"A"}, Clients}
    /\ sessions = [c \in Clients |-> EmptySession]
    /\ jar = [c \in Clients |-> EmptyJar]
    /\ attempts = <<>>
    /\ inflight = {}
    /\ finished = {}
    /\ nrid = 0
    /\ last = Response("init", "A", 0, Undefined, Undefined, 0, NoBody, NoRedirect,
                       Undefined, {})
    /\ boot = Serving(variant)
    /\ api = ApiIdle
    /\ web = WebIdle
    /\ lib = LibIdle

Next ==
    \/ \E c \in clients : Auth(c)
    \/ \E c \in clients, code \in QueryCodes, s \in QueryStates : Callback(c, code, s)
    \/ \E r \in inflight : ExchangeOk(r)
    \/ \E r \in inflight, hasResponse \in BOOLEAN : ExchangeFail(r, hasResponse)
    \/ \E r \in inflight : ExchangeOkNullData(r)
    \/ \E c \in clients : GetToken(c)
    \/ \E c \in clients : Logout(c)

Spec == Init /\ [][Next]_vars

\* The token exchange of request rid is answered: axios.post resolves or
\* rejects and the handler continues after its await.
Answers(rid) ==
    \E r \in inflight :
        /\ r.rid = rid
        /\ \/ ExchangeOk(r)
           \/ ExchangeOkNullData(r)
           \/ \E hasResponse \in BOOLEAN : ExchangeFail(r, hasResponse)

\* The server with a provider that answers or fails every token exchange.
SpecAnswered ==
    Init /\ [][Next]_vars /\ \A rid \in 1..MaxCalls : WF_vars(Answers(rid))

\* The process from the moment its module has loaded, before any request.
InitStartup ==
    /\ variant \in Variants
    /\ clients = {"A"}
    /\ sessions = [c \in Clients |-> EmptySession]
    /\ jar = [c \in Clients |-> EmptyJar]
    /\ attempts = <<>>
    /\ inflight = {}
    /\ finished = {}
    /\ nrid = 0
    /\ last = Response("init", "A", 0, Undefined, Undefined, 0, NoBody, NoRedirect,
                       Undefined, {})
    /\ boot = Loaded(variant)
    /\ api = ApiIdle
    /\ web = WebIdle
    /\ lib = LibIdle

NextStartup ==
    \/ StoreReady
    \/ StoreError
    \/ RetryTimer
    \/ ClientReconnects

SpecStartup == InitStartup /\ [][NextStartup]_vars

\* The second server file of src/main.js (197-411): no store client, it
\* listens while the module loads.
NoStore == [Loaded("main") EXCEPT !.conn = "none", !.retries = 0, !.listens = 1]

\* That server before any request on the upload and update routes.
InitApi ==
    /\ variant = "main"
    /\ clients = {"A"}
    /\ sessions = [c \in Clients |-> EmptySession]
    /\ jar = [c \in Clients |-> EmptyJar]
    /\ attempts = <<>>
    /\ inflight = {}
    /\ finished = {}
    /\ nrid = 0
    /\ last = Response("init", "A", 0, Undefined, Undefined, 0, NoBody, NoRedirect,
                       Undefined, {})
    /\ boot = NoStore
    /\ \E e \in Endpoints : api = [ApiIdle EXCEPT !.endpoint = e]
    /\ web = WebIdle
    /\ lib = LibIdle

NextApi ==
    \/ \E req \in UploadRequests : UploadRequest(req)
    \/ \E i \in api.pending : UploadDone(i)
    \/ \E i \in api.pending : UploadFail(i)
    \/ \E method \in {"GET", "POST"}, present \in SUBSET UpdateFields :
          UpdateRequest(method, present)
    \/ UpdateOk
    \/ UpdateFail

SpecApi == InitApi /\ [][NextApi]_vars

\* A server file that is serving, before the request.
InitWeb ==
    /\ variant = "main"
    /\ clients = {"A"}
    /\ sessions = [c \in Clients |-> EmptySession]
    /\ jar = [c \in Clients |-> EmptyJar]
    /\ attempts = <<>>
    /\ inflight = {}
    /\ finished = {}
    /\ nrid = 0
    /\ last = Response("init", "A", 0, Undefined, Undefined, 0, NoBody, NoRedirect,
                       Undefined, {})
    /\ boot = Serving(variant)
    /\ api = ApiIdle
    /\ web = WebIdle
    /\ lib = LibIdle

NextWeb ==
    \/ \E file \in Files, method \in Methods, path \in Paths,
          overLimit \in BOOLEAN, token \in Tokens :
            WebRequest(file, method, path, overLimit, token)
    \/ RelayOk
    \/ \E message \in {AxiosErrorMessage, <<"axios", "Network Error">>} : RelayFail(message)

SpecWeb == InitWeb /\ [][NextWeb]_vars

\* Before the configuration module is loaded or a utility function called.
InitLib ==
    /\ variant = "main"
    /\ clients = {"A"}
    /\ sessions = [c \in Clients |-> EmptySession]
    /\ jar = [c \in Clients |-> EmptyJar]
    /\ attempts = <<>>
    /\ inflight = {}
    /\ finished = {}
    /\ nrid = 0
    /\ last = Response("init", "A", 0, Undefined, Undefined, 0, NoBody, NoRedirect,
                       Undefined, {})
    /\ boot = Loaded(variant)
    /\ api = ApiIdle
    /\ web = WebIdle
    /\ \E sha256 \in [Verifiers -> DigestSamples] : lib = [LibIdle EXCEPT !.sha256 = sha256]

NextLib ==
    \/ \E file \in Files, env \in Envs : LoadConfig(file, env)
    \/ \E length \in (1..MaxLength) \cup {DefaultVerifierLength}, seed \in Seeds :
          CallVerifier(length, seed)
    \/ \E verifier \in Verifiers : CallChallenge(verifier)

SpecLib == InitLib /\ [][NextLib]_vars

----------------------------------------------------------------------------
(* Properties *)

Is400NoExchange ==
    /\ last'.status = 400
    /\ last'.body = CsrfMessage
    /\ nrid' = nrid
    /\ inflight' = inflight

\* The attempts of client c, oldest first, and the latest of them (0: none).
AttemptsOf(c) == {n \in 1..Len(attempts) : attempts[n] = c}
LatestAttempt(c) ==
    IF AttemptsOf(c) = {} THEN 0
    ELSE CHOOSE n \in AttemptsOf(c) : \A m \in AttemptsOf(c) : m <= n

IssuedStates == {generateRandomStateValue(n) : n \in 1..Len(attempts)}

\* The token-exchange requests sent so far that carried state s.
ExchangesFor(s) ==
    Cardinality({r \in inflight : r.qstate = s})
        + Cardinality({f \in finished : f.qstate = s})

\* C1: a /callback whose state parameter differs from the state stored for
\* the calling client is answered 400 and sends no token-exchange request.
C1_MismatchRejected ==
    [][(last'.kind = "callback" /\ last'.qstate # StoredState(last'.client))
          => Is400NoExchange]_vars

C1_Witness ==
    /\ last.kind = "callback"
    /\ last.status = 400
    /\ last.qstate \in IssuedStates
    /\ StoredState(last.client) \in IssuedStates
    /\ StoredState(last.client) # last.qstate

\* C2: when no state is stored for the calling client, every /callback,
\* also one without a state parameter, is answered 400 and sends no
\* token-exchange request.
C2_AbsentStateRejected ==
    [][(last'.kind = "callback" /\ StoredState(last'.client) = Undefined)
          => Is400NoExchange]_vars

\* C3: a successful exchange for a /callback that carried an issued state
\* delivers the provider's token (into the session, or into the redirect
\* URL), and from then on the state and the verifier of that flow are not in
\* the client's transient store.
C3_TokenDeliveredSecretsCleared ==
    /\ (last.kind = "exchange_ok" /\ last.qstate # Undefined) =>
          IF variant \in SessionVariants
            THEN /\ last.status = 200
                 /\ sessions[last.client].tokenData = <<"data", last.rid, last.client>>
            ELSE /\ last.status = 302
                 /\ last.redirect =
                      <<"dashboard", <<"uri", <<"tok", last.rid, last.client>>>>>>
    /\ \A f \in finished :
          (f.status = "ok" /\ f.qstate # Undefined) =>
              /\ StoredState(f.client) # f.qstate
              /\ StoredVerifier(f.client) # f.verifier

C3_Witness ==
    /\ last.kind = "exchange_ok"
    /\ last.qstate \in IssuedStates
    /\ \E f \in finished : f.status = "ok" /\ f.qstate = last.qstate
                           /\ f.verifier # Undefined

\* C4: once a /callback carrying an issued state has succeeded, a later
\* /callback of the same client with the same state (and any code, the same
\* one included) is answered 400 and sends no token-exchange request.
C4_ReplayRejected ==
    [][(/\ last'.kind = "callback"
        /\ \E f \in finished : /\ f.status = "ok"
                               /\ f.client = last'.client
                               /\ f.qstate = last'.qstate
                               /\ f.qstate # Undefined)
          => Is400NoExchange]_vars

C4_Witness ==
    /\ last.kind = "callback"
    /\ last.status = 400
    /\ \E f \in finished : /\ f.status = "ok"
                           /\ f.client = last.client
                           /\ f.qstate = last.qstate
                           /\ f.qstate \in IssuedStates

\* C5: for one /auth at most one token-exchange request is ever sent, also
\* when two /callback requests with the same valid state are in flight.
C5_SingleUse == \A s \in IssuedStates : ExchangesFor(s) <= 1

\* C6: a /callback that carries a state reaches the token exchange only with
\* the state of the client's latest /auth, and then sends the verifier of
\* that same attempt; a /callback carrying the state of an earlier attempt is
\* answered 400; the token stored or delivered is the one the provider
\* returned for the exchange of the validated request.
C6_NoCrossAttempt ==
    /\ (last.kind = "callback" /\ last.qstate # Undefined /\ last.status = 0) =>
          /\ LatestAttempt(last.client) # 0
          /\ last.qstate = generateRandomStateValue(LatestAttempt(last.client))
          /\ \E r \in inflight :
                /\ r.rid = last.rid
                /\ r.verifier = generateCodeVerifier(LatestAttempt(last.client))
    /\ (/\ last.kind = "callback"
        /\ last.qstate \in IssuedStates
        /\ last.qstate # generateRandomStateValue(LatestAttempt(last.client)))
          => last.status = 400
    /\ \A r \in inflight :
          r.qstate # Undefined =>
              \E n \in 1..Len(attempts) :
                  /\ r.qstate = generateRandomStateValue(n)
                  /\ r.verifier = generateCodeVerifier(n)
    /\ (last.kind = "exchange_ok" /\ variant \in SessionVariants) =>
          sessions[last.client].tokenData[2] = last.rid
    /\ (last.kind = "exchange_ok" /\ variant \notin SessionVariants) =>
          last.redirect[2][2][2] = last.rid

C6_Witness ==
    /\ last.kind = "callback"
    /\ last.status = 400
    /\ Cardinality(AttemptsOf(last.client)) >= 2
    /\ last.qstate \in {generateRandomStateValue(n) : n \in AttemptsOf(last.client)}
    /\ StoredState(last.client) \in IssuedStates

\* C7: a /callback of a client is validated against the state stored for
\* that client only, the verifier it sends was generated for that client, and
\* the token data in a client's session (what /gettoken returns) was obtained
\* by a callback of that client.
C7_ClientIsolation ==
    /\ last.kind = "callback" =>
          (last.status = 0 <=> last.qstate = StoredState(last.client))
    /\ \A r \in inflight :
          /\ r.qstate # Undefined =>
                \E n \in AttemptsOf(r.client) : r.qstate = generateRandomStateValue(n)
          /\ r.verifier # Undefined =>
                \E n \in AttemptsOf(r.client) : r.verifier = generateCodeVerifier(n)
    /\ \A c \in clients :
          sessions[c].tokenData # Undefined => sessions[c].tokenData[3] = c
    /\ (last.kind = "gettoken" /\ last.status = 200 /\ last.json # EmptyObject)
          => last.json[3] = last.client

C7_Witness ==
    /\ last.kind = "callback"
    /\ last.status = 400
    /\ \E d \in clients \ {last.client} :
          /\ StoredState(d) = last.qstate
          /\ last.qstate \in IssuedStates
    /\ StoredState(last.client) \in IssuedStates

\* C8: when the token exchange fails, /callback answers 500 with a fixed
\* message that holds nothing of the provider's error, stores no token data
\* and delivers no token.
C8_FailureIsGeneric500 ==
    [][last'.kind = "exchange_fail" =>
          /\ last'.status = 500
          /\ last'.body \in {Text("Error obtaining token."),
                             Text("Internal Server Error")}
          /\ last'.redirect = NoRedirect
          /\ last'.json = Undefined
          /\ sessions' = sessions
          /\ jar' = jar]_vars

C8_Witness ==
    /\ last.kind = "exchange_fail"
    /\ last.status = 500
    /\ last.qstate \in IssuedStates

\* C9: after /callback answered 500 for a failed exchange, a later /callback
\* carrying the same state is answered 400 and sends no token-exchange
\* request.
C9_FailureEndsAttempt ==
    [][(/\ last'.kind = "callback"
        /\ \E f \in finished : /\ f.status = "failed"
                               /\ f.client = last'.client
                               /\ f.qstate = last'.qstate
                               /\ f.qstate # Undefined)
          => Is400NoExchange]_vars

\* C10: no step of /callback writes token data to the console or a log.
C10_TokenNeverLogged ==
    \A x \in last.logged : x[1] # "data" /\ x[1] # "tok"

C13_ListenAfterReady == boot.listens > 0 => boot.readySeen

\* C14: whatever the error events, the error handler has scheduled at most
\* Retries reconnects, and an 'error' event that arrives while fewer than
\* Retries reconnects were scheduled schedules one and leaves the process
\* running.
C14_BoundedRetry ==
    [][boot'.errors = boot.errors + 1 =>
          /\ boot'.scheduled <= Retries
          /\ boot.scheduled < Retries =>
                (boot'.proc = "running" /\ boot'.scheduled = boot.scheduled + 1)]_vars

\* C15: once an 'error' event has found the retries exhausted, the process
\* has terminated (and so does not serve).
C15_FatalAfterRetries == boot.gaveUp => boot.proc = "exited"

\* C16: an upload request that does not carry exactly 2 files (no files
\* field, 0, 1, 3 or more files) is answered 400 and no upload to object
\* storage is started or stored for it.
C16_WrongCountRejected ==
    (api.route = "upload" /\ (~api.hasFiles \/ Len(api.files) # 2)) =>
        /\ api.resp.status = 400
        /\ api.resp.urls = <<>>
        /\ api.calls = <<>>
        /\ api.pending = {}
        /\ api.stored = <<>>

C16_Witness ==
    /\ api.route = "upload"
    /\ Len(api.files) = 3
    /\ api.resp.status = 400

\* The key the files of a request are to be stored under.
ExpectedKey(name) ==
    IF \E i \in 1..Len(name) :
          i + 6 <= Len(name) /\ SubSeq(name, i, i + 6) = <<"p", "i", "c", "t", "u", "r", "e">>
      THEN <<"p", "i", "x", "/">> \o name
      ELSE <<"s", "i", "g", "/">> \o name

\* C17: when an upload request is answered with success, it carried 2 files,
\* exactly one upload was issued for each, under the pictures folder when the
\* file's name contains 'picture' and under the signatures folder otherwise,
\* both were stored, and the response lists 2 urls.
C17_BothStoredInFolders ==
    (api.route = "upload" /\ api.resp.status = 200) =>
        /\ Len(api.files) = 2
        /\ Len(api.calls) = 2
        /\ \A i \in 1..2 :
              /\ Cardinality({k \in DOMAIN api.calls : api.calls[k].idx = i}) = 1
              /\ api.calls[i].Key = ExpectedKey(api.files[i])
        /\ \/ api.stored = <<ExpectedKey(api.files[1]), ExpectedKey(api.files[2])>>
           \/ api.stored = <<ExpectedKey(api.files[2]), ExpectedKey(api.files[1])>>
        /\ Len(api.resp.urls) = 2

C17_Witness ==
    /\ api.route = "upload"
    /\ api.resp.status = 200
    /\ api.files = << <<"m", "y", "p", "i", "c", "t", "u", "r", "e">>,
                      <<"s", "i", "g", "n">> >>

\* C18: once the upload of a file has failed, the request is answered 500
\* 'Internal Server Error' with no url and no success message, also when the
\* other file was stored.
C18_FailureFailsWhole ==
    (api.route = "upload" /\ api.failed # {}) =>
        /\ api.phase = "answered"
        /\ api.resp.status = 500
        /\ api.resp.body = Text("Internal Server Error")
        /\ api.resp.urls = <<>>
        /\ api.resp.message = NoBody

C18_Witness ==
    /\ api.route = "upload"
    /\ Cardinality(api.failed) = 1
    /\ Len(api.stored) = 1
    /\ api.resp.status = 500

\* C19: every public URL computed for a stored file is the public endpoint
\* followed by the part of the storage location after the internal endpoint.
C19_PublicUrlSubstitutesEndpoint ==
    \A k \in DOMAIN api.urls :
        LET location == Location(api.endpoint, api.stored[k])
        IN  api.urls[k] =
              IDRIVE_S3_PUBLIC_ENDPOINT
                \o SubSeq(location, Len(api.endpoint) + 1, Len(location))

\* C20: a POST on the update route with a field missing is answered 400 and
\* sends no PATCH; with all four fields it sends one PATCH and, once
\* answered by the downstream API, returns the downstream JSON.
C20_UpdateIsValidatedPost ==
    (api.route = "update" /\ api.method = "POST") =>
        IF api.present # UpdateFields
          THEN api.resp.status = 400 /\ api.patches = <<>>
          ELSE /\ Len(api.patches) = 1
               /\ api.resp.status \in {0, 200, 500}
               /\ api.resp.status = 200 => api.resp.json = DownstreamData(api.patches[1])

C25_RelayFailuresAreGeneric500 ==
    (web.by = "route" /\ web.path \in RelayPaths) =>
        /\ web.failure # "none" =>
              /\ web.phase = "answered"
              /\ web.resp = [NoResponse EXCEPT
                               !.status = 500, !.body = <<"Internal Server Error">>]
        /\ (web.file \in {"main2", "part003"} /\ web.path = SuiteQLPath
              /\ web.token # <<"jwt", "sub">>) =>
              web.failure = "token" /\ web.downstream = <<>>
        /\ web.resp.status = 200 =>
              /\ web.failure = "none"
              /\ Len(web.downstream) = 1
              /\ web.downstream[1].bearer = web.token
              /\ web.resp.json = <<"json", web.downstream[1].url>>
              /\ web.resp.body = NoBody
        /\ web.resp.status \in {0, 200, 500}

C25_Witness ==
    /\ web.by = "route"
    /\ web.path = SuiteQLPath
    /\ web.token = <<"jwt", "sub">>
    /\ web.failure = "downstream"
    /\ web.resp.status = 500

\* C22: the process throws while it loads its configuration, and does not
\* serve, exactly when a value of its schema or a value its request handlers
\* read is absent or malformed; keys outside both do not matter.
C22_ConfigValidated ==
    lib.op = "config" =>
        LET bad(k) ==
              IF k \in SchemaNumbers(lib.file) THEN lib.env[k] # "numeric"
              ELSE IF k = "NODE_ENV"
                THEN lib.env[k] \notin {"absent", "production", "development"}
              ELSE lib.env[k] \in {"absent", "empty"}
            needed == SchemaStrings(lib.file) \cup SchemaNumbers(lib.file)
                        \cup HandlerKeys(lib.file)
                        \cup (IF lib.file = "index" THEN {} ELSE {"NODE_ENV"})
        IN  IF \E k \in needed : bad(k)
              THEN lib.threw /\ ~lib.serving
              ELSE ~lib.threw /\ lib.serving

\* C23: all calls of generateCodeChallenge with the same verifier returned
\* the same string, and every result has 43 characters, none of them '+',
\* '/' or '='.
C23_ChallengeDeterministicUrlSafe ==
    lib.op = "challenge" =>
        /\ \A p, q \in lib.calls : p[1] = q[1] => p[2] = q[2]
        /\ \A p \in lib.calls :
              /\ Len(p[2]) = 43
              /\ \A i \in 1..Len(p[2]) : p[2][i] \notin {"+", "/", "="}

C23_Witness ==
    /\ lib.op = "challenge"
    /\ Cardinality(lib.calls) = 2
    /\ \E p \in lib.calls : \E i \in 1..Len(p[2]) : p[2][i] \in {"-", "_"}

C26_ExchangeFollowsAuth ==
    \A r \in inflight \cup finished :
        \E n \in 1..Len(attempts) :
            attempts[n] = r.client /\ r.qstate = <<"st", n>>

\* C27: an /auth stores the state it puts in the redirect and the verifier
\* whose S256 challenge it puts there; the token request of a callback that
\* presented the state of an attempt carries grant_type authorization_code,
\* the code of that callback and the verifier of that same attempt.
C27_PkceBinding ==
    [][/\ last'.kind = "auth" =>
            LET n == Len(attempts')
                c == last'.client
            IN  /\ attempts'[n] = c
                /\ last'.redirect = <<"authorize", "response_type=code", <<"st", n>>,
                                      <<"S256", <<"cv", n>>>>, "S256">>
                /\ IF variant \in SessionVariants
                     THEN /\ sessions'[c].oauthState = <<"st", n>>
                          /\ sessions'[c].codeVerifier = <<"cv", n>>
                     ELSE /\ jar'[c].oauth_state = <<"st", n>>
                          /\ jar'[c].oauth_code_verifier = <<"cv", n>>
       /\ (last'.kind = "callback" /\ last'.status = 0) =>
            /\ Cardinality(inflight' \ inflight) = 1
            /\ \A r \in inflight' \ inflight :
                  /\ r.grant_type = "authorization_code"
                  /\ r.client = last'.client
                  /\ r.code = last'.code
                  /\ r.qstate = last'.qstate
                  /\ \A n \in 1..Len(attempts) :
                        r.qstate = <<"st", n>> => r.verifier = <<"cv", n>>]_vars

C27_Witness ==
    /\ Len(attempts) = 2
    /\ \E r \in inflight : r.qstate = <<"st", 2>> /\ r.verifier = <<"cv", 2>>
    /\ \E f \in finished : f.qstate = <<"st", 1>> /\ f.verifier = <<"cv", 1>>

\* C28: once the server is serving, an 'error' event of the store client
\* leaves the process running.
C28_StoreErrorKeepsServing ==
    [][(boot.listens > 0 /\ boot.readySeen /\ boot'.errors = boot.errors + 1) =>
          boot'.proc = "running"]_vars

\* C29: in the session variants, when a callback that presented a stored
\* state finishes while the session
\* holds a state other than the one it presented (an /auth of the same
\* client wrote it while the callback was suspended), that state and its
\* verifier are still stored after the callback's answer.
C29_AuthSurvivesCallback ==
    [][(variant \in SessionVariants /\ last'.kind \in {"exchange_ok", "exchange_fail"}) =>
          \A r \in inflight \ inflight' :
              (/\ r.qstate # Undefined
               /\ sessions[r.client].oauthState # Undefined
               /\ sessions[r.client].oauthState # r.qstate) =>
                  /\ sessions'[r.client].oauthState = sessions[r.client].oauthState
                  /\ sessions'[r.client].codeVerifier = sessions[r.client].codeVerifier]_vars

\* C30: in the session variants, when a callback that presented a stored
\* state finishes while the session is destroyed (a /logout of the same
\* client ran while the callback was suspended), the session is still
\* destroyed after the callback's answer.
C30_LogoutWins ==
    [][(variant \in SessionVariants /\ last'.kind \in {"exchange_ok", "exchange_fail"}) =>
          \A r \in inflight \ inflight' :
              (r.qstate # Undefined /\ sessions[r.client] = EmptySession) =>
                  sessions'[r.client] = EmptySession]_vars

\* C31: whatever the 'ready' and 'error' events of the store client, app.listen
\* has been called at most once in the life of the process.
C31_ListenAtMostOnce == boot.listens <= 1

\* C32: in a successful upload the urls of the response are in the order of
\* the submitted files: the i-th url is the public URL computed for the i-th
\* file, in whichever order the two uploads completed.
C32_UrlsInFileOrder ==
    (api.route = "upload" /\ api.resp.status = 200) =>
        \A i \in DOMAIN api.resp.urls :
            api.resp.urls[i] =
                resultPublicLocation(Location(api.endpoint, fullFileName(api.files[i])))

\* C33: a /callback answered 400 leaves the sessions, the cookies and the
\* token exchanges in flight as they were, and a /callback of the same client
\* that follows it and carries the state stored for the pending attempt is
\* accepted: it sends the token exchange.
C33_RejectedCallbackChangesNothing ==
    [][/\ (last'.kind = "callback" /\ last'.status = 400) =>
             /\ sessions' = sessions
             /\ jar' = jar
             /\ inflight' = inflight
       /\ (/\ last.kind = "callback" /\ last.status = 400
           /\ last'.kind = "callback" /\ last'.client = last.client
           /\ StoredState(last.client) # Undefined
           /\ last'.qstate = StoredState(last.client)) =>
             /\ last'.status = 0
             /\ \E r \in inflight' \ inflight :
                   /\ r.client = last.client
                   /\ r.qstate = last'.qstate
                   /\ r.verifier = StoredVerifier(last.client)]_vars

\* A callback was just rejected while the client has a pending attempt and
\* token data of an earlier flow, and a further callback can still be made.
C33_Witness ==
    /\ variant \in SessionVariants
    /\ last.kind = "callback"
    /\ last.status = 400
    /\ last.qstate # Undefined
    /\ sessions[last.client].oauthState # Undefined
    /\ sessions[last.client].codeVerifier # Undefined
    /\ sessions[last.client].tokenData # Undefined
    /\ nrid < CallLimit

\* The steps that belong to a /callback request.
CallbackKinds == {"callback", "exchange_ok", "exchange_fail", "exchange_null"}

\* C34 (responses and effects): a /callback is answered 400 at once or
\* suspended with a fresh request id; a suspended one is answered by exactly
\* one step, with 200, 302 or 500, and leaves the requests in flight for good;
\* no other step answers it; and a /callback step that answers 400 or 500
\* clears no secret and delivers no token: sessions and cookies are as
\* before and nothing is redirected.
C34_OneResponseSecretsOnSuccess ==
    [][/\ nrid' >= nrid
       /\ last'.kind = "callback" =>
             \/ last'.status = 400 /\ inflight' = inflight
             \/ /\ last'.status = 0
                /\ last'.rid = nrid + 1
                /\ nrid' = nrid + 1
                /\ \E r \in inflight' \ inflight :
                      r.rid = last'.rid /\ inflight' = inflight \cup {r}
       /\ \A r \in inflight \ inflight' :
             /\ inflight' = inflight \ {r}
             /\ r.rid <= nrid
             /\ last'.kind \in CallbackKinds \ {"callback"}
             /\ last'.rid = r.rid
             /\ last'.status \in {200, 302, 500}
       /\ last'.kind \notin CallbackKinds => inflight' = inflight
       /\ (last'.kind \in CallbackKinds /\ last'.status \in {400, 500}) =>
             /\ sessions' = sessions
             /\ jar' = jar
             /\ last'.redirect = NoRedirect]_vars

\* C34 (termination): with a provider that answers or fails every token
\* exchange, every suspended /callback is eventually answered. It holds
\* under SpecAnswered.
C34_EveryCallbackAnswered ==
    \A rid \in 1..MaxCalls :
        (\E r \in inflight : r.rid = rid) ~> (\A r \in inflight : r.rid # rid)

====
